---------------------------- MODULE Spec2Model ----------------------------
(***************************************************************************)
(* Model of MapViewer.get_listings_from_db                                 *)
(* (src/property_analyzer/display_properties.py): the bulk SQL query       *)
(* assembled from the enabled conditions, followed by the in-memory area,  *)
(* transit-distance and address-pattern stages; of the annotations read by *)
(* MapViewer.__init__ and honoured by MapViewer.export_data_to_csv; and of *)
(* convert_interior_size_to_sqft (src/property_analyzer/utils.py).         *)
(*                                                                         *)
(* Conventions.  A nullable column or an optional parameter is a sequence  *)
(* of length 0 (SQL NULL / Python None) or 1 (the known value).  SQL truth *)
(* values are the strings "TRUE", "FALSE", "NULL".  Dates are day numbers  *)
(* counted from 2023-11-19.  Coordinates are points of an integer grid and *)
(* the geodesic distance is the taxicab distance of that grid, in meters.  *)
(* Building_StoriesTotal is counted in half storeys (11 is the text        *)
(* '5.5').  An address text is a sequence of one-character strings.        *)
(***************************************************************************)
EXTENDS Integers, Sequences, FiniteSets, TLC

VARIABLES
    store,               \* the Listings table, in rowid order
    today,               \* the day SQLite's DATE('now') evaluates to
    area_of_interest,    \* MapViewer.area_of_interest: polygon vertices, <<>> when none
    points_of_interest,  \* MapViewer.points_of_interest: transit points
    criteria,            \* arguments of the last call, <<>> before the first
    calledOn,            \* value of today at the last call
    outcome,             \* "none", "returned" or "raised": how the last call ended
    rows,                \* rows fetched by the bulk query of the last call
    inArea,              \* listings after the area stage of the last call
    nearTransit,         \* listings after the transit stage of the last call
    listings,            \* listings returned by the last call
    prev,                \* criteria, day, outcome and result of the call before the last
    executed,            \* the last call handed its query to cursor.execute
    mls_notes,           \* MapViewer.mls_notes: annotations by MLS number
    csv_file,            \* listings_to_audit.csv as last written by export_data_to_csv
    conversion           \* last call of convert_interior_size_to_sqft: input and result

vars == <<store, today, area_of_interest, points_of_interest, criteria, calledOn,
          outcome, rows, inArea, nearTransit, listings, prev, executed, mls_notes,
          csv_file, conversion>>

----------------------------------------------------------------------------
(* Bounds of the model *)

MaxRows == 2
MaxDay == 11
MaxLines == 2

----------------------------------------------------------------------------
(* Nullable values *)

None == <<>>
Some(v) == <<v>>
IsNone(x) == x = <<>>
Val(x) == x[1]

\* Python truthiness of an `int | None` argument: None and 0 are both false.
Truthy(x) == ~IsNone(x) /\ Val(x) # 0

----------------------------------------------------------------------------
(* Program constants *)

DefaultMinPrice == 100000
DefaultMaxPrice == 10000000
DefaultLastUpdatedDaysAgo == 7
NoLimit == -1
HighRiseStories == 5
PriceHistoryStartDay == 0
SquareFeetPerSquareMeterMilli == 10764
FirstDay == 10

----------------------------------------------------------------------------
(* SQL three-valued logic, as SQLite evaluates a WHERE clause *)

SqlBool(b) == IF b THEN "TRUE" ELSE "FALSE"

SqlAnd(a, b) ==
    IF a = "FALSE" \/ b = "FALSE" THEN "FALSE"
    ELSE IF a = "NULL" \/ b = "NULL" THEN "NULL"
    ELSE "TRUE"

SqlOr(a, b) ==
    IF a = "TRUE" \/ b = "TRUE" THEN "TRUE"
    ELSE IF a = "NULL" \/ b = "NULL" THEN "NULL"
    ELSE "FALSE"

SqlIsNull(x) == SqlBool(IsNone(x))
SqlIsNotNull(x) == SqlBool(~IsNone(x))

\* column > literal, column < literal, ... : NULL when the column is NULL
SqlGt(x, n) == IF IsNone(x) THEN "NULL" ELSE SqlBool(Val(x) > n)
SqlLt(x, n) == IF IsNone(x) THEN "NULL" ELSE SqlBool(Val(x) < n)
SqlGe(x, n) == IF IsNone(x) THEN "NULL" ELSE SqlBool(Val(x) >= n)
SqlLe(x, n) == IF IsNone(x) THEN "NULL" ELSE SqlBool(Val(x) <= n)
SqlNe(x, s) == IF IsNone(x) THEN "NULL" ELSE SqlBool(Val(x) # s)
SqlNotIn(x, S) == IF IsNone(x) THEN "NULL" ELSE SqlBool(Val(x) \notin S)

\* x IS NOT TRUE: never NULL
SqlIsNotTrue(x) == SqlBool(IsNone(x) \/ Val(x) = FALSE)

\* CAST (x AS INTEGER) of a storey count kept in half storeys: truncation
CastInteger(h) == h \div 2

\* Property_Parking LIKE '%Garage%' on the parking descriptions of the model
ContainsGarage(s) == s \in {"Garage", "Attached Garage"}
SqlLikeGarage(x) == IF IsNone(x) THEN "NULL" ELSE SqlBool(ContainsGarage(Val(x)))

----------------------------------------------------------------------------
(* The conditions list and the WHERE clause *)

Append1(seq, on, name) == IF on THEN Append(seq, name) ELSE seq

\* has_garage / elif has_parking_details
ParkingCondition(seq, c) ==
    IF c.has_garage THEN Append(seq, "has_garage")
    ELSE IF c.has_parking_details THEN Append(seq, "has_parking_details")
    ELSE seq

\* The list `conditions`, in the order the code appends to it.
Conditions(c) ==
    LET s1 == Append1(<<>>, c.no_vacant_land, "no_vacant_land")
        s2 == Append1(s1, c.no_high_rise, "no_high_rise")
        s3 == Append1(s2, c.no_new_listings, "no_new_listings")
        s4 == Append1(s3, c.must_have_int_sqft, "must_have_int_sqft")
        s5 == Append1(s4, c.must_have_price_change, "must_have_price_change")
        s6 == Append1(s5, Truthy(c.min_bedroom), "min_bedroom")
        s7 == Append1(s6, Truthy(c.last_updated_days_ago), "last_updated_days_ago")
        s8 == Append1(s7, Truthy(c.min_sqft), "min_sqft")
        s9 == Append1(s8, Truthy(c.max_price_per_sqft), "max_price_per_sqft")
        s10 == ParkingCondition(s9, c)
    IN  Append1(s10, c.no_undividied, "no_undividied")

NoVacantLand(r) ==
    SqlAnd(SqlOr(SqlIsNull(r.Property_ZoningType),
                 SqlNotIn(r.Property_ZoningType, {"Agricultural"})),
           SqlNe(r.Property_Type, "Vacant Land"))

NoHighRise(r) ==
    SqlOr(SqlIsNull(r.Building_StoriesTotal),
          IF IsNone(r.Building_StoriesTotal) THEN "NULL"
          ELSE SqlBool(CastInteger(Val(r.Building_StoriesTotal)) < HighRiseStories))

NoNewListings(r) == SqlIsNotTrue(r.ComputedNewBuild)

MustHaveIntSqft(r) == SqlIsNotNull(r.Building_SizeInterior)

MustHavePriceChange(r) ==
    SqlAnd(SqlIsNotNull(r.PriceChangeDateUTC),
           SqlGt(r.PriceChangeDateUTC, PriceHistoryStartDay))

\* a comparison that forgets the rows without a bedroom count
MinBedroomKnownOnly(r, c) == SqlGe(r.Building_Bedrooms, Val(c.min_bedroom))

MinBedroom(r, c) ==
    SqlOr(SqlIsNull(r.Building_Bedrooms), SqlGe(r.Building_Bedrooms, Val(c.min_bedroom)))

\* DATE(ComputedLastUpdated) >= DATE('now', '-N day')
LastUpdated(r, c, day) ==
    SqlGe(r.ComputedLastUpdated, day - Val(c.last_updated_days_ago))

MinSqft(r, c) ==
    SqlOr(SqlIsNull(r.ComputedSQFT), SqlGe(r.ComputedSQFT, Val(c.min_sqft)))

MaxPricePerSqft(r, c) ==
    SqlOr(SqlIsNull(r.ComputedPricePerSQFT),
          SqlLe(r.ComputedPricePerSQFT, Val(c.max_price_per_sqft)))

HasGarage(r) == SqlLikeGarage(r.Property_Parking)

HasParkingDetails(r) == SqlIsNotNull(r.Property_Parking)

NoUndivided(r) ==
    SqlOr(SqlIsNull(r.Property_OwnershipType),
          SqlNe(r.Property_OwnershipType, "Undivided Co-ownership"))

\* Value of one parenthesised condition on a row.
ConditionValue(name, r, c, day) ==
    CASE name = "no_vacant_land" -> NoVacantLand(r)
      [] name = "no_high_rise" -> NoHighRise(r)
      [] name = "no_new_listings" -> NoNewListings(r)
      [] name = "must_have_int_sqft" -> MustHaveIntSqft(r)
      [] name = "must_have_price_change" -> MustHavePriceChange(r)
      [] name = "min_bedroom" -> MinBedroom(r, c)
      [] name = "last_updated_days_ago" -> LastUpdated(r, c, day)
      [] name = "min_sqft" -> MinSqft(r, c)
      [] name = "max_price_per_sqft" -> MaxPricePerSqft(r, c)
      [] name = "has_garage" -> HasGarage(r)
      [] name = "has_parking_details" -> HasParkingDetails(r)
      [] name = "no_undividied" -> NoUndivided(r)

\* ' AND '.join(conditions) evaluated on a row, for a non-empty list: the
\* conjunction is FALSE if a condition is FALSE, else NULL if one is NULL.
JoinAnd(conds, r, c, day) ==
    LET vals == {ConditionValue(conds[i], r, c, day) : i \in 1..Len(conds)}
    IN  IF "FALSE" \in vals THEN "FALSE"
        ELSE IF "NULL" \in vals THEN "NULL"
        ELSE "TRUE"

\* a band that admits the bounds themselves
PriceBandInclusive(r, c) ==
    SqlAnd(SqlGe(r.Property_PriceUnformattedValue, c.min_price),
           SqlLe(r.Property_PriceUnformattedValue, c.max_price))

PriceBand(r, c) ==
    SqlAnd(SqlGt(r.Property_PriceUnformattedValue, c.min_price),
           SqlLt(r.Property_PriceUnformattedValue, c.max_price))

\* The WHERE clause on a row; only a TRUE value selects the row.
WhereClause(r, c, day) == SqlAnd(PriceBand(r, c), JoinAnd(Conditions(c), r, c, day))

\* With an empty conditions list the clause ends in a dangling AND and
\* SQLite rejects the statement.
QueryIsMalformed(c) == Conditions(c) = <<>>

\* The open-house join keeps the listings that have an open house starting
\* today or later.
InOpenHouseJoin(r, c, day) ==
    c.has_upcoming_openhouse => (~IsNone(r.OpenHouseStart) /\ Val(r.OpenHouseStart) >= day)

Selected(r, c, day) == InOpenHouseJoin(r, c, day) /\ WhereClause(r, c, day) = "TRUE"

\* a limit that lets one row too many through
LimitOffByOne(seq, n) == IF n < 0 \/ n + 1 >= Len(seq) THEN seq ELSE SubSeq(seq, 1, n + 1)

\* LIMIT n: the first n rows; a negative n is no limit in SQLite.
Limit(seq, n) == IF n < 0 \/ n >= Len(seq) THEN seq ELSE SubSeq(seq, 1, n)

\* query += " LIMIT {limit}" unless limit is -1
ApplyLimit(seq, c) == IF c.limit # NoLimit THEN Limit(seq, c.limit) ELSE seq

\* cursor.execute(query).fetchall(): the selected rows in table order
FetchAll(tbl, c, day) ==
    ApplyLimit(SelectSeq(tbl, LAMBDA r : Selected(r, c, day)), c)

----------------------------------------------------------------------------
(* shapely: Polygon(vertices).contains(Point(x, y)) *)

Min(a, b) == IF a < b THEN a ELSE b
Max(a, b) == IF a > b THEN a ELSE b

\* i-th edge of the ring, closing it from the last vertex to the first
EdgeFrom(poly, i) == poly[i]
EdgeTo(poly, i) == poly[(i % Len(poly)) + 1]

Cross(a, b, p) == (b[1] - a[1]) * (p[2] - a[2]) - (b[2] - a[2]) * (p[1] - a[1])

OnSegment(a, b, p) ==
    /\ Cross(a, b, p) = 0
    /\ Min(a[1], b[1]) <= p[1] /\ p[1] <= Max(a[1], b[1])
    /\ Min(a[2], b[2]) <= p[2] /\ p[2] <= Max(a[2], b[2])

OnBoundary(poly, p) ==
    \E i \in 1..Len(poly) : OnSegment(EdgeFrom(poly, i), EdgeTo(poly, i), p)

\* The edge a-b crosses the half line that leaves p in the direction of
\* growing first coordinate.
CrossesRay(a, b, p) ==
    /\ (a[2] > p[2]) # (b[2] > p[2])
    /\ IF b[2] > a[2]
       THEN (p[1] - a[1]) * (b[2] - a[2]) < (p[2] - a[2]) * (b[1] - a[1])
       ELSE (p[1] - a[1]) * (b[2] - a[2]) > (p[2] - a[2]) * (b[1] - a[1])

Crossings(poly, p) ==
    Cardinality({i \in 1..Len(poly) : CrossesRay(EdgeFrom(poly, i), EdgeTo(poly, i), p)})

\* covers: interior or boundary
PolygonCovers(poly, p) == OnBoundary(poly, p) \/ Crossings(poly, p) % 2 = 1

\* contains: the point is in the interior; a point of the boundary is not
\* contained.
PolygonContains(poly, p) == ~OnBoundary(poly, p) /\ Crossings(poly, p) % 2 = 1

\* Point(lat, lon) raises TypeError when a coordinate is None.
HasPoint(r) == ~IsNone(r.Property_Address_Latitude) /\ ~IsNone(r.Property_Address_Longitude)
PointOf(r) == <<Val(r.Property_Address_Latitude), Val(r.Property_Address_Longitude)>>

----------------------------------------------------------------------------
(* geopy: distance.distance([lat, lon], poi).meters *)

Abs(n) == IF n < 0 THEN -n ELSE n

DistanceMeters(p, q) == Abs(p[1] - q[1]) + Abs(p[2] - q[2])

\* geopy's Point reads a None coordinate as 0.0, except that a latitude
\* with a None longitude is rejected with ValueError.
GeopyRejects(r) ==
    ~IsNone(r.Property_Address_Latitude) /\ IsNone(r.Property_Address_Longitude)

OrZero(x) == IF IsNone(x) THEN 0 ELSE Val(x)

GeopyPoint(r) == <<OrZero(r.Property_Address_Latitude), OrZero(r.Property_Address_Longitude)>>

\* any([distance(listing, poi).meters < d for poi in points_of_interest])
NearAnyPoint(r, pois, d) ==
    \E i \in 1..Len(pois) : DistanceMeters(GeopyPoint(r), pois[i]) < d

----------------------------------------------------------------------------
(* re.search(r"\|#([5-9]\d{2}|\d{4})\|", address) *)

\* a first digit that also takes the 300s and 400s for high floors
HighDigitsFromThree == {"3", "4", "5", "6", "7", "8", "9"}

Digits == {"0", "1", "2", "3", "4", "5", "6", "7", "8", "9"}
HighDigits == {"5", "6", "7", "8", "9"}

\* the pattern matches at position i of the text
MatchesAt(txt, i) ==
    /\ i + 1 <= Len(txt)
    /\ txt[i] = "|"
    /\ txt[i + 1] = "#"
    /\ \/ /\ i + 5 <= Len(txt)
          /\ txt[i + 2] \in HighDigits
          /\ txt[i + 3] \in Digits
          /\ txt[i + 4] \in Digits
          /\ txt[i + 5] = "|"
       \/ /\ i + 6 <= Len(txt)
          /\ \A k \in 2..5 : txt[i + k] \in Digits
          /\ txt[i + 6] = "|"

HighUnitSearch(txt) == \E i \in 1..Len(txt) : MatchesAt(txt, i)

----------------------------------------------------------------------------
(* utils.convert_interior_size_to_sqft.  A size text is a sequence of      *)
(* one-character strings; a number is kept in tenths and a result in       *)
(* ten-thousandths of a square foot.                                       *)

Spaces(txt) == {i \in 1..Len(txt) : txt[i] = " "}

FirstSpace(txt) == CHOOSE i \in Spaces(txt) : \A j \in Spaces(txt) : i <= j

\* building_size_interior.split(" "): a cut at every single space
RECURSIVE SplitOnSpace(_)
SplitOnSpace(txt) ==
    IF Spaces(txt) = {} THEN <<txt>>
    ELSE <<SubSeq(txt, 1, FirstSpace(txt) - 1)>>
         \o SplitOnSpace(SubSeq(txt, FirstSpace(txt) + 1, Len(txt)))

Dots(tok) == {i \in 1..Len(tok) : tok[i] = "."}

\* float(tok) succeeds: digits with at most one decimal point
IsFloatText(tok) ==
    /\ \A i \in 1..Len(tok) : tok[i] \in Digits \cup {"."}
    /\ Cardinality(Dots(tok)) <= 1
    /\ Cardinality(Dots(tok)) < Len(tok)

DigitOf(ch) == CHOOSE d \in 0..9 : <<"0", "1", "2", "3", "4", "5", "6", "7", "8", "9">>[d + 1] = ch

RECURSIVE DigitsValue(_)
DigitsValue(tok) ==
    IF tok = <<>> THEN 0
    ELSE 10 * DigitsValue(SubSeq(tok, 1, Len(tok) - 1)) + DigitOf(tok[Len(tok)])

\* the first decimal, read as tenths
Tenths(frac) == DigitsValue(SubSeq(frac \o <<"0">>, 1, 1))

\* float(tok), in tenths
FloatTenths(tok) ==
    IF Dots(tok) = {} THEN 10 * DigitsValue(tok)
    ELSE LET d == CHOOSE i \in Dots(tok) : TRUE
         IN  10 * DigitsValue(SubSeq(tok, 1, d - 1)) + Tenths(SubSeq(tok, d + 1, Len(tok)))

Sqft == <<"s", "q", "f", "t">>
M2 == <<"m", "2">>

\* The call on one text: float() raises ValueError on a first field that is
\* not a number, size_details[1] raises IndexError when there is no second
\* field, and an unrecognised unit returns 0.
Converted(txt) ==
    LET size_details == SplitOnSpace(txt)
    IN  IF ~IsFloatText(size_details[1]) \/ Len(size_details) < 2
        THEN [input |-> txt, outcome |-> "raised", value |-> 0]
        ELSE [input |-> txt, outcome |-> "returned",
              value |-> IF size_details[2] = Sqft
                        THEN 1000 * FloatTenths(size_details[1])
                        ELSE IF size_details[2] = M2
                        THEN SquareFeetPerSquareMeterMilli * FloatTenths(size_details[1])
                        ELSE 0]

----------------------------------------------------------------------------
(* The three in-memory stages *)

AreaStageEnabled(c, area) == c.within_area_of_interest /\ area # <<>>
AreaStageRaises(seq) == \E i \in 1..Len(seq) : ~HasPoint(seq[i])
AreaStage(seq, area) == SelectSeq(seq, LAMBDA r : PolygonContains(area, PointOf(r)))

TransitStageEnabled(c) == Truthy(c.min_metro_distance_meters)
TransitStageRaises(seq, pois) == pois # <<>> /\ \E i \in 1..Len(seq) : GeopyRejects(seq[i])
TransitStage(seq, pois, d) == SelectSeq(seq, LAMBDA r : NearAnyPoint(r, pois, d))

AddressStageEnabled(c) == c.no_high_rise
\* re.search raises TypeError on a None address
AddressStageRaises(seq) == \E i \in 1..Len(seq) : IsNone(seq[i].Property_Address_AddressText)
\* a stage that hands its rows back in the opposite order
AddressStageReversing(seq) ==
    LET kept == SelectSeq(seq, LAMBDA r : ~HighUnitSearch(Val(r.Property_Address_AddressText)))
    IN  [i \in 1..Len(kept) |-> kept[Len(kept) + 1 - i]]

AddressStage(seq) ==
    SelectSeq(seq, LAMBDA r : ~HighUnitSearch(Val(r.Property_Address_AddressText)))

\* a query that consumes the rows it fetches
StoreAfterConsumingQuery(tbl, fetched) == SelectSeq(tbl, LAMBDA r : ~(\E j \in 1..Len(fetched) : fetched[j] = r))

\* The connection is only read from and is closed without a commit.
StoreAfterQuery(tbl, fetched) == tbl

----------------------------------------------------------------------------
(* Operations *)

\* The signature's default arguments
Defaults ==
    [min_price |-> DefaultMinPrice,
     max_price |-> DefaultMaxPrice,
     must_have_int_sqft |-> FALSE,
     must_have_price_change |-> FALSE,
     no_new_listings |-> TRUE,
     no_vacant_land |-> TRUE,
     no_high_rise |-> TRUE,
     within_area_of_interest |-> TRUE,
     min_metro_distance_meters |-> None,
     min_bedroom |-> None,
     min_sqft |-> None,
     max_price_per_sqft |-> None,
     last_updated_days_ago |-> Some(DefaultLastUpdatedDaysAgo),
     has_garage |-> FALSE,
     has_parking_details |-> FALSE,
     has_upcoming_openhouse |-> FALSE,
     no_undividied |-> FALSE,
     limit |-> NoLimit]

NoCall == [criteria |-> Defaults, calledOn |-> FirstDay, outcome |-> "none", listings |-> <<>>]

\* No argument is validated before line 217: every call executes its query,
\* which SQLite may then reject.
QueryIsExecuted(c) == TRUE

\* The locals of one call: the fetched rows, the list after each stage and
\* how the call ends.
Run(tbl, c, day, area, pois) ==
    LET malformed == QueryIsMalformed(c)
        fetched == IF malformed THEN <<>> ELSE FetchAll(tbl, c, day)
        areaOn == AreaStageEnabled(c, area)
        areaRaises == ~malformed /\ areaOn /\ AreaStageRaises(fetched)
        afterArea == IF malformed \/ areaRaises THEN <<>>
                     ELSE IF areaOn THEN AreaStage(fetched, area)
                     ELSE fetched
        transitOn == TransitStageEnabled(c)
        reachedTransit == ~malformed /\ ~areaRaises
        transitRaises == reachedTransit /\ transitOn
                         /\ TransitStageRaises(afterArea, pois)
        afterTransit == IF ~reachedTransit \/ transitRaises THEN <<>>
                        ELSE IF transitOn
                             THEN TransitStage(afterArea, pois,
                                               Val(c.min_metro_distance_meters))
                        ELSE afterArea
        reachedAddress == reachedTransit /\ ~transitRaises
        addressOn == AddressStageEnabled(c)
        addressRaises == reachedAddress /\ addressOn /\ AddressStageRaises(afterTransit)
        result == IF ~reachedAddress \/ addressRaises THEN <<>>
                  ELSE IF addressOn THEN AddressStage(afterTransit)
                  ELSE afterTransit
    IN  [rows |-> fetched, inArea |-> afterArea, nearTransit |-> afterTransit,
         listings |-> result,
         executed |-> QueryIsExecuted(c),
         outcome |-> IF reachedAddress /\ ~addressRaises THEN "returned" ELSE "raised"]

\* One call of get_listings_from_db with the arguments c.
GetListingsFromDb(c) ==
    \E run \in {Run(store, c, today, area_of_interest, points_of_interest)} :
        /\ prev' = [criteria |-> criteria, calledOn |-> calledOn,
                    outcome |-> outcome, listings |-> listings]
        /\ criteria' = c
        /\ calledOn' = today
        /\ rows' = run.rows
        /\ inArea' = run.inArea
        /\ nearTransit' = run.nearTransit
        /\ listings' = run.listings
        /\ outcome' = run.outcome
        /\ store' = StoreAfterQuery(store, run.rows)
        /\ executed' = run.executed
        /\ UNCHANGED <<today, area_of_interest, points_of_interest, mls_notes, csv_file,
                       conversion>>

\* The calendar day changes between two calls.
Tick ==
    /\ today < MaxDay
    /\ today' = today + 1
    /\ UNCHANGED <<store, area_of_interest, points_of_interest, criteria, calledOn,
                   outcome, rows, inArea, nearTransit, listings, prev, executed,
                   mls_notes, csv_file, conversion>>

\* A size is converted; nothing else changes.
ConvertInteriorSizeToSqft(txt) ==
    /\ conversion' = Converted(txt)
    /\ UNCHANGED <<store, today, area_of_interest, points_of_interest, criteria, calledOn,
                   outcome, rows, inArea, nearTransit, listings, prev, executed,
                   mls_notes, csv_file>>

----------------------------------------------------------------------------
(* Annotations: mls_notes.txt as read by MapViewer.__init__ *)

\* A line of the file after split(","): the MLS number of its first field and
\* the fields after it.
NoteLine(mls, rest) == [mls |-> mls, rest |-> rest]

\* data[1].strip().lower() on the answers of the model
StripLower(s) ==
    CASE s = "No" -> "no"
      [] s = " n " -> "n"
      [] s = "FALSE" -> "false"
      [] s = " Yes" -> "yes"
      [] OTHER -> s

Negative == {"n", "no", "false", "f"}

\* data[2].strip()
Strip(s) ==
    CASE s = " sold " -> "sold"
      [] s = " " -> ""
      [] OTHER -> s

\* The entry a line leaves in mls_notes: keep is False for a bare MLS number
\* and for a negative answer; notes is present only with a third field.
NoteOf(line) ==
    [keep |-> IF Len(line.rest) = 0 THEN FALSE
              ELSE ~(StripLower(line.rest[1]) \in Negative),
     notes |-> IF Len(line.rest) > 1 THEN Some(Strip(line.rest[2])) ELSE None]

\* The dictionary after all lines: a later line for the same MLS number
\* replaces the earlier entry.
ReadNotes(lines) ==
    [m \in {lines[i].mls : i \in 1..Len(lines)} |->
        LET last == CHOOSE i \in 1..Len(lines) :
                        /\ lines[i].mls = m
                        /\ \A j \in 1..Len(lines) : lines[j].mls = m => j <= i
        IN  NoteOf(lines[last])]

NoNotesFile == <<>>

----------------------------------------------------------------------------
(* export_data_to_csv *)

\* self.mls_notes[mls].get("notes") for an annotated listing, "" otherwise
CustomNotes(r, notes) ==
    IF r.MlsNumber \in DOMAIN notes THEN notes[r.MlsNumber].notes ELSE Some("")

\* `if custom_notes:` is false for None and for the empty string
HasCustomNotes(r, notes) ==
    ~IsNone(CustomNotes(r, notes)) /\ Val(CustomNotes(r, notes)) # ""

\* listing["Notes"] = custom_notes, for a listing that has notes
WithNotes(r, notes) ==
    IF HasCustomNotes(r, notes) THEN [r EXCEPT !.Notes = CustomNotes(r, notes)] ELSE r

\* The `continue` of line 357: reached only inside `if custom_notes:`
SkippedAtExport(r, notes) ==
    HasCustomNotes(r, notes) /\ notes[r.MlsNumber].keep = FALSE

ListingsToSave(seq, notes) ==
    SelectSeq([i \in 1..Len(seq) |-> WithNotes(seq[i], notes)],
              LAMBDA r : ~SkippedAtExport(r, notes))

\* The listings a call returned are exported: those with notes get their
\* Notes key, and listings_to_audit.csv is rewritten.
ExportDataToCsv ==
    /\ outcome = "returned"
    /\ listings' = [i \in 1..Len(listings) |-> WithNotes(listings[i], mls_notes)]
    /\ csv_file' = [written |-> TRUE, listings |-> listings,
                    rows |-> ListingsToSave(listings, mls_notes)]
    /\ UNCHANGED <<store, today, area_of_interest, points_of_interest, criteria, calledOn,
                   outcome, rows, inArea, nearTransit, prev, executed, mls_notes,
                   conversion>>

----------------------------------------------------------------------------
(* Store contents *)

\* A listing that passes every condition of a default call and every stage.
Listing ==
    [Id |-> 0,
     MlsNumber |-> 0,
     Notes |-> None,
     Property_PriceUnformattedValue |-> Some(200000),
     Property_ZoningType |-> Some("Residential"),
     Property_Type |-> Some("Single Family"),
     Building_StoriesTotal |-> Some(4),
     ComputedNewBuild |-> Some(FALSE),
     Building_SizeInterior |-> Some("1000 sqft"),
     PriceChangeDateUTC |-> Some(5),
     Building_Bedrooms |-> Some(2),
     ComputedLastUpdated |-> Some(FirstDay),
     ComputedSQFT |-> Some(1000),
     ComputedPricePerSQFT |-> Some(200),
     Property_Parking |-> Some("Garage"),
     Property_OwnershipType |-> Some("Freehold"),
     Property_Address_Latitude |-> Some(1),
     Property_Address_Longitude |-> Some(1),
     Property_Address_AddressText |-> Some(<<"1", " ", "R", "u", "e">>),
     OpenHouseStart |-> None]

\* The table holding the given listings, numbered in insertion order.
Table(kinds) == [i \in 1..Len(kinds) |-> [kinds[i] EXCEPT !.Id = i, !.MlsNumber = i]]

SeqsUpTo(S, n) == UNION {[1..k -> S] : k \in 0..n}

Tables(S) == {Table(k) : k \in SeqsUpTo(S, MaxRows)}

Square == <<<<0, 0>>, <<0, 2>>, <<2, 2>>, <<2, 0>>>>

\* No file has been written and no size converted yet.
NotWritten == [written |-> FALSE, listings |-> <<>>, rows |-> <<>>]
NoConversion == [input |-> <<>>, outcome |-> "none", value |-> 0]

InitWithNotes(tables, areas, poiLists, noteFiles) ==
    /\ store \in tables
    /\ area_of_interest \in areas
    /\ points_of_interest \in poiLists
    /\ today = FirstDay
    /\ criteria = Defaults
    /\ calledOn = FirstDay
    /\ outcome = "none"
    /\ rows = <<>>
    /\ inArea = <<>>
    /\ nearTransit = <<>>
    /\ listings = <<>>
    /\ prev = NoCall
    /\ executed = FALSE
    /\ \E file \in noteFiles : mls_notes = ReadNotes(file)
    /\ csv_file = NotWritten
    /\ conversion = NoConversion

\* Construction without a notes file: mls_notes stays empty.
InitWith(tables, areas, poiLists) == InitWithNotes(tables, areas, poiLists, {NoNotesFile})

----------------------------------------------------------------------------
(* Price band and limit: calls that vary min_price, max_price, limit and   *)
(* the area stage over listings of every kind of price.                    *)

WithPrice(p) == [Listing EXCEPT !.Property_PriceUnformattedValue = p]

Outside(r) == [r EXCEPT !.Property_Address_Latitude = Some(3)]

PriceListings ==
    {WithPrice(None), Outside(WithPrice(Some(200000))), WithPrice(Some(250000)),
     WithPrice(Some(300000))}

\* Every optional condition disabled: the conditions list is empty.
NothingEnabled ==
    [Defaults EXCEPT !.no_new_listings = FALSE, !.no_vacant_land = FALSE,
                     !.no_high_rise = FALSE, !.last_updated_days_ago = None]

PriceCriteria ==
    {[Defaults EXCEPT !.min_price = a, !.max_price = 300000, !.limit = l,
                      !.within_area_of_interest = w] :
        a \in {100000, 200000}, l \in {NoLimit, 0, 1}, w \in BOOLEAN}
    \cup {[NothingEnabled EXCEPT !.min_price = 200000, !.max_price = 300000],
          [NothingEnabled EXCEPT !.min_price = 200000, !.max_price = 300000,
                                 !.no_undividied = TRUE, !.has_parking_details = TRUE],
          [Defaults EXCEPT !.min_price = 200000, !.max_price = 300000,
                           !.has_garage = TRUE, !.must_have_int_sqft = TRUE,
                           !.must_have_price_change = TRUE, !.min_sqft = Some(800)]}

InitPrice == InitWith(Tables(PriceListings), {Square}, {<<>>})

NextPrice == \E c \in PriceCriteria : GetListingsFromDb(c)

SpecPrice == InitPrice /\ [][NextPrice]_vars

Price(r) == r.Property_PriceUnformattedValue

Returned(r) == \E i \in 1..Len(listings) : listings[i] = r

\* C1: every listing a call returns has a known price strictly between the
\* call's min_price and max_price.
PriceBandIsStrict ==
    \A i \in 1..Len(listings) :
        /\ ~IsNone(Price(listings[i]))
        /\ criteria.min_price < Val(Price(listings[i]))
        /\ Val(Price(listings[i])) < criteria.max_price

\* A call returned a listing and left out one priced exactly at a bound and
\* one without a price.
PriceBandWitness ==
    /\ outcome = "returned"
    /\ listings # <<>>
    /\ \E i \in 1..Len(store) :
           /\ ~IsNone(Price(store[i]))
           /\ Val(Price(store[i])) \in {criteria.min_price, criteria.max_price}
           /\ ~Returned(store[i])

\* The row satisfies every filter that the call c enables, on the given day.
MatchesAll(r, c, day) ==
    /\ Selected(r, c, day)
    /\ AreaStageEnabled(c, area_of_interest) =>
           (HasPoint(r) /\ PolygonContains(area_of_interest, PointOf(r)))
    /\ TransitStageEnabled(c) =>
           NearAnyPoint(r, points_of_interest, Val(c.min_metro_distance_meters))
    /\ AddressStageEnabled(c) =>
           (~IsNone(r.Property_Address_AddressText)
            /\ ~HighUnitSearch(Val(r.Property_Address_AddressText)))

Matching(c, day) == {i \in 1..Len(store) : MatchesAll(store[i], c, day)}

\* C9: a call that returns with limit >= 0 returns at most limit listings,
\* and one that returns with limit = -1 returns every row of the store that
\* matches all the enabled filters.
LimitCapsResult ==
    outcome = "returned" =>
        /\ criteria.limit >= 0 => Len(listings) <= criteria.limit
        /\ criteria.limit = NoLimit =>
               \A i \in Matching(criteria, calledOn) : Returned(store[i])

\* An unlimited call returned two listings and the same call with limit 1
\* returned one.
LimitCapsWitness ==
    /\ outcome = "returned" /\ prev.outcome = "returned"
    /\ prev.criteria.limit = NoLimit /\ Len(prev.listings) = 2
    /\ criteria = [prev.criteria EXCEPT !.limit = 1]
    /\ Len(listings) = 1
    /\ Cardinality(Matching(criteria, calledOn)) = 2

\* No optional condition is asked for: every flag false, every threshold
\* none.
AllOptionalDisabled(c) ==
    /\ ~c.no_vacant_land /\ ~c.no_high_rise /\ ~c.no_new_listings
    /\ ~c.must_have_int_sqft /\ ~c.must_have_price_change
    /\ ~c.has_garage /\ ~c.has_parking_details /\ ~c.no_undividied
    /\ ~c.has_upcoming_openhouse
    /\ IsNone(c.min_bedroom) /\ IsNone(c.min_sqft) /\ IsNone(c.max_price_per_sqft)
    /\ IsNone(c.last_updated_days_ago) /\ IsNone(c.min_metro_distance_meters)

InPriceBand(r, c) ==
    /\ ~IsNone(Price(r))
    /\ c.min_price < Val(Price(r))
    /\ Val(Price(r)) < c.max_price

\* C16: a call with every optional condition disabled returns, and the rows
\* its query fetched are exactly the rows of the store with a price strictly
\* inside the band.
AllOptionalFiltersCanBeDisabled ==
    (outcome # "none" /\ AllOptionalDisabled(criteria)) =>
        /\ outcome = "returned"
        /\ \A i \in 1..Len(store) :
               (\E j \in 1..Len(rows) : rows[j] = store[i]) <=> InPriceBand(store[i], criteria)

----------------------------------------------------------------------------
(* Area and transit stages: listings inside, outside and on the boundary   *)
(* of the polygon, near and far from the transit points, and one without   *)
(* coordinates.                                                            *)

At(lat, lon) ==
    [Listing EXCEPT !.Property_Address_Latitude = Some(lat),
                    !.Property_Address_Longitude = Some(lon)]

NoCoordinates ==
    [Listing EXCEPT !.Property_Address_Latitude = None,
                    !.Property_Address_Longitude = None]

\* latitudes 0..2 by longitudes 0..4, extended by latitudes 2..3 by
\* longitudes 0..2
Polygon == <<<<0, 0>>, <<0, 4>>, <<2, 4>>, <<2, 2>>, <<3, 2>>, <<3, 0>>>>

Stations == <<<<0, 0>>, <<4, 4>>>>

GeoListings == {At(1, 1), At(1, 3), At(3, 3), At(2, 3), At(2, 2), NoCoordinates}

GeoCriteria ==
    {[Defaults EXCEPT !.within_area_of_interest = w, !.min_metro_distance_meters = d] :
        w \in BOOLEAN, d \in {None, Some(0), Some(3)}}

InitGeo == InitWith(Tables(GeoListings), {<<>>, Polygon}, {<<>>, Stations})

NextGeo == \E c \in GeoCriteria : GetListingsFromDb(c)

SpecGeo == InitGeo /\ [][NextGeo]_vars

InSeq(r, seq) == \E j \in 1..Len(seq) : seq[j] = r

Swap(pt) == <<pt[2], pt[1]>>

Transposed(poly) == [i \in 1..Len(poly) |-> Swap(poly[i])]

\* The point is off the boundary and a half line leaving it in the direction
\* of growing longitude crosses the boundary an odd number of times.
StrictlyInside(poly, pt) ==
    /\ ~OnBoundary(poly, pt)
    /\ Crossings(Transposed(poly), Swap(pt)) % 2 = 1

InsideOrOnBoundary(poly, pt) == StrictlyInside(poly, pt) \/ OnBoundary(poly, pt)

\* The last call reached the area stage with the stage enabled.
AreaStageReached ==
    /\ outcome # "none"
    /\ ~QueryIsMalformed(criteria)
    /\ AreaStageEnabled(criteria, area_of_interest)

AreaStageCompleted == AreaStageReached /\ \A i \in 1..Len(rows) : HasPoint(rows[i])

\* C2, as stated: a fetched row survives the area stage if and only if its
\* point lies inside the polygon or on its boundary.
BoundaryPointsSurvive ==
    AreaStageCompleted =>
        \A i \in 1..Len(rows) :
            InSeq(rows[i], inArea) <=> InsideOrOnBoundary(area_of_interest, PointOf(rows[i]))

\* C2, amended: a fetched row survives the area stage if and only if its
\* point lies strictly inside the polygon; a point on an edge or a vertex is
\* removed like a point outside.  When a fetched row has no coordinates the
\* stage raises and the call returns nothing.
OnlyInteriorPointsSurvive ==
    /\ AreaStageCompleted =>
           \A i \in 1..Len(rows) :
               InSeq(rows[i], inArea) <=> StrictlyInside(area_of_interest, PointOf(rows[i]))
    /\ (AreaStageReached /\ ~AreaStageCompleted) =>
           (outcome = "raised" /\ inArea = <<>> /\ listings = <<>>)

\* The area stage kept an interior point and removed a boundary point.
AreaStageWitness ==
    /\ AreaStageCompleted
    /\ inArea # <<>>
    /\ \E i \in 1..Len(rows) :
           OnBoundary(area_of_interest, PointOf(rows[i])) /\ ~InSeq(rows[i], inArea)

\* C3: when a call is given a numeric min_metro_distance_meters D, zero
\* included, every returned listing with coordinates is less than D meters
\* from some transit point.
ReturnedAreNearTransit ==
    (outcome = "returned" /\ ~IsNone(criteria.min_metro_distance_meters)) =>
        \A i \in 1..Len(listings) :
            HasPoint(listings[i]) =>
                \E k \in 1..Len(points_of_interest) :
                    DistanceMeters(PointOf(listings[i]), points_of_interest[k])
                        < Val(criteria.min_metro_distance_meters)

\* C14: the transit stage removes rows only when a distance is given and at
\* least one transit point is loaded; a call that returns with a distance
\* but no transit point keeps every row that reached the stage.
TransitStageNeedsPoints ==
    (outcome = "returned"
     /\ (IsNone(criteria.min_metro_distance_meters) \/ points_of_interest = <<>>))
        => nearTransit = inArea

----------------------------------------------------------------------------
(* Order of the result: tables of up to MaxRows + 1 listings of which each *)
(* stage removes some.                                                     *)

WithAddress(r, txt) == [r EXCEPT !.Property_Address_AddressText = Some(txt)]

Unit512 == <<"1", " ", "R", "u", "e", "|", "#", "5", "1", "2", "|">>

OrderListings == {At(1, 1), At(3, 3), At(1, 3), WithAddress(At(1, 1), Unit512)}

OrderCriteria ==
    {[Defaults EXCEPT !.within_area_of_interest = w, !.min_metro_distance_meters = d,
                      !.no_high_rise = h] :
        w \in BOOLEAN, d \in {None, Some(3)}, h \in BOOLEAN}

InitOrder ==
    InitWith({Table(k) : k \in SeqsUpTo(OrderListings, MaxRows + 1)}, {Polygon}, {Stations})

NextOrder == \E c \in OrderCriteria : GetListingsFromDb(c)

SpecOrder == InitOrder /\ [][NextOrder]_vars

RECURSIVE IsSubsequence(_, _)
IsSubsequence(s, t) ==
    IF s = <<>> THEN TRUE
    ELSE IF t = <<>> THEN FALSE
    ELSE IF Head(s) = Head(t) THEN IsSubsequence(Tail(s), Tail(t))
    ELSE IsSubsequence(s, Tail(t))

\* C8: the returned listings are a subsequence of the fetched rows: the
\* stages remove rows and never reorder, repeat or add one.
ResultIsSubsequenceOfRows ==
    /\ IsSubsequence(listings, rows)
    /\ IsSubsequence(inArea, rows)
    /\ IsSubsequence(nearTransit, inArea)
    /\ IsSubsequence(listings, nearTransit)

\* A call with the three stages enabled fetched three rows and returned two.
SubsequenceWitness ==
    /\ outcome = "returned"
    /\ criteria.within_area_of_interest /\ criteria.no_high_rise
    /\ Truthy(criteria.min_metro_distance_meters)
    /\ Len(rows) = 3
    /\ Len(listings) = 2

----------------------------------------------------------------------------
(* High-rise exclusion: listings of every kind of storey count and unit    *)
(* marker, with the exclusion on and off.                                  *)

WithStories(r, h) == [r EXCEPT !.Building_StoriesTotal = h]

Address(unit) == <<"1", " ", "R", "u", "e">> \o unit

HighRiseListings ==
    {WithStories(Listing, None),
     WithStories(WithAddress(Listing, Address(<<"|", "#", "3", "0", "5", "|">>)), Some(9)),
     WithStories(Listing, Some(10)),
     WithAddress(Listing, Unit512),
     WithAddress(Listing, Address(<<"|", "#", "1", "2", "0", "4", "|">>)),
     WithAddress(Listing, Address(<<"|", "#", "5", "1", "2", "3", "4", "|">>)),
     WithStories(WithAddress(Listing, Address(<<"#", "9", "9", "9", "|">>)), Some(11))}

HighRiseCriteria ==
    {[Defaults EXCEPT !.no_high_rise = h, !.limit = l] : h \in BOOLEAN, l \in {NoLimit, 1}}

InitHighRise == InitWith(Tables(HighRiseListings), {Polygon}, {Stations})

NextHighRise == \E c \in HighRiseCriteria : GetListingsFromDb(c)

SpecHighRise == InitHighRise /\ [][NextHighRise]_vars

DigitValue(ch) ==
    CASE ch = "0" -> 0 [] ch = "1" -> 1 [] ch = "2" -> 2 [] ch = "3" -> 3 [] ch = "4" -> 4
      [] ch = "5" -> 5 [] ch = "6" -> 6 [] ch = "7" -> 7 [] ch = "8" -> 8 [] ch = "9" -> 9

IsDigit(ch) == ch \in {"0", "1", "2", "3", "4", "5", "6", "7", "8", "9"}

\* the number written at positions i..j of the text
RECURSIVE Number(_, _, _)
Number(txt, i, j) == IF j < i THEN 0 ELSE 10 * Number(txt, i, j - 1) + DigitValue(txt[j])

\* The text holds |#N| where N is a number of three digits from 500 to 999
\* or a number of four digits.
HasHighUnitMarker(txt) ==
    \E i \in 1..Len(txt) : \E n \in {3, 4} :
        /\ i + n + 2 <= Len(txt)
        /\ txt[i] = "|" /\ txt[i + 1] = "#" /\ txt[i + n + 2] = "|"
        /\ \A k \in (i + 2)..(i + n + 1) : IsDigit(txt[k])
        /\ n = 3 => (500 <= Number(txt, i + 2, i + 4) /\ Number(txt, i + 2, i + 4) <= 999)

AddressOf(r) == Val(r.Property_Address_AddressText)

\* C10: with no_high_rise, no returned listing has a known count of five or
\* more storeys and the address stage removes exactly the rows whose address
\* holds a high unit marker; without it neither exclusion applies (every
\* listing of these tables passes the other filters, so all are returned).
HighRiseExclusion ==
    outcome = "returned" =>
        /\ criteria.no_high_rise =>
               /\ \A i \in 1..Len(listings) :
                      ~IsNone(listings[i].Building_StoriesTotal) =>
                          Val(listings[i].Building_StoriesTotal) < 2 * HighRiseStories
               /\ \A i \in 1..Len(nearTransit) :
                      ~InSeq(nearTransit[i], listings) <=>
                          HasHighUnitMarker(AddressOf(nearTransit[i]))
        /\ ~criteria.no_high_rise =>
               /\ listings = nearTransit
               /\ listings = ApplyLimit(store, criteria)

\* A call with no_high_rise left out a listing of five storeys and removed
\* unit 512; the call before, without no_high_rise, had returned more.
HighRiseWitness ==
    /\ outcome = "returned" /\ criteria.no_high_rise
    /\ \E i \in 1..Len(store) :
           /\ store[i].Building_StoriesTotal = Some(10)
           /\ ~InSeq(store[i], rows)
    /\ \E i \in 1..Len(nearTransit) :
           /\ AddressOf(nearTransit[i]) = Unit512
           /\ ~InSeq(nearTransit[i], listings)
    /\ prev.outcome = "returned" /\ ~prev.criteria.no_high_rise
    /\ Len(prev.listings) > Len(listings)

----------------------------------------------------------------------------
(* Numeric thresholds: listings with an unknown or a failing bedroom       *)
(* count, size and price per size; every listing passes the other filters. *)

ThresholdListings ==
    {[Listing EXCEPT !.Building_Bedrooms = None],
     [Listing EXCEPT !.Building_Bedrooms = Some(1)],
     [Listing EXCEPT !.ComputedSQFT = None],
     [Listing EXCEPT !.ComputedSQFT = Some(500)],
     [Listing EXCEPT !.ComputedPricePerSQFT = None],
     [Listing EXCEPT !.ComputedPricePerSQFT = Some(900)]}

ThresholdCriteria ==
    {Defaults,
     [Defaults EXCEPT !.min_bedroom = Some(2), !.min_sqft = Some(800),
                      !.max_price_per_sqft = Some(500)]}
    \cup {[Defaults EXCEPT !.min_bedroom = Some(b)] : b \in {0, 2, 3}}
    \cup {[Defaults EXCEPT !.min_sqft = Some(z)] : z \in {800, 2000}}
    \cup {[Defaults EXCEPT !.max_price_per_sqft = Some(m)] : m \in {0, 500}}

InitThreshold == InitWith(Tables(ThresholdListings), {Polygon}, {Stations})

NextThreshold == \E c \in ThresholdCriteria : GetListingsFromDb(c)

SpecThreshold == InitThreshold /\ [][NextThreshold]_vars

WithoutThresholds(c) ==
    [c EXCEPT !.min_bedroom = None, !.min_sqft = None, !.max_price_per_sqft = None]

Known(x) == ~IsNone(x)

FailsBedrooms(r, c) ==
    Known(c.min_bedroom) /\ Known(r.Building_Bedrooms)
    /\ Val(r.Building_Bedrooms) < Val(c.min_bedroom)

FailsSize(r, c) ==
    Known(c.min_sqft) /\ Known(r.ComputedSQFT) /\ Val(r.ComputedSQFT) < Val(c.min_sqft)

FailsPricePerSize(r, c) ==
    Known(c.max_price_per_sqft) /\ Known(r.ComputedPricePerSQFT)
    /\ Val(r.ComputedPricePerSQFT) > Val(c.max_price_per_sqft)

\* C4: a listing that the call would return without its three thresholds is
\* left out only for a known value that fails a threshold: bedrooms below
\* min_bedroom, size below min_sqft or price per size above
\* max_price_per_sqft.  An unknown value never excludes.
UnknownPassesThresholds ==
    (outcome = "returned" /\ criteria.limit = NoLimit) =>
        \A i \in 1..Len(store) :
            (MatchesAll(store[i], WithoutThresholds(criteria), calledOn)
             /\ ~Returned(store[i]))
                => \/ FailsBedrooms(store[i], criteria)
                   \/ FailsSize(store[i], criteria)
                   \/ FailsPricePerSize(store[i], criteria)

\* A call with min_bedroom 2 returned a listing without a bedroom count and
\* left out one with a single bedroom.
UnknownPassesWitness ==
    /\ outcome = "returned"
    /\ criteria.min_bedroom = Some(2)
    /\ \E i \in 1..Len(store) : IsNone(store[i].Building_Bedrooms) /\ Returned(store[i])
    /\ \E i \in 1..Len(store) : store[i].Building_Bedrooms = Some(1) /\ ~Returned(store[i])

----------------------------------------------------------------------------
(* Field filters: listings that each miss one of the tested fields and     *)
(* have no failing value.                                                  *)

MissingFieldListings ==
    {[Listing EXCEPT !.Property_ZoningType = None],
     [Listing EXCEPT !.Property_Type = None],
     [Listing EXCEPT !.Building_StoriesTotal = None],
     [Listing EXCEPT !.ComputedNewBuild = None],
     [Listing EXCEPT !.ComputedLastUpdated = None],
     [Listing EXCEPT !.Property_OwnershipType = None]}

MissingFieldCriteria ==
    {[Defaults EXCEPT !.no_vacant_land = v, !.last_updated_days_ago = u,
                      !.no_undividied = o] :
        v \in BOOLEAN, u \in {None, Some(DefaultLastUpdatedDaysAgo)}, o \in BOOLEAN}

InitMissingField == InitWith(Tables(MissingFieldListings), {Polygon}, {Stations})

NextMissingField == \E c \in MissingFieldCriteria : GetListingsFromDb(c)

SpecMissingField == InitMissingField /\ [][NextMissingField]_vars

\* C5: no field filter excludes a listing for a missing field: the listings
\* of these tables have no failing value, so every call returns them all.
MissingFieldNeverExcludes ==
    outcome = "returned" => \A i \in 1..Len(store) : Returned(store[i])

----------------------------------------------------------------------------
(* Tightening a threshold, with a limit and the area stage.                *)

TightenListings ==
    {Outside(WithPrice(Some(200000))), WithPrice(Some(250000)),
     [Listing EXCEPT !.ComputedPricePerSQFT = Some(900)],
     [Listing EXCEPT !.Building_Bedrooms = Some(1)]}

TightenCriteria ==
    {[Defaults EXCEPT !.min_price = a, !.limit = l, !.max_price_per_sqft = Some(m),
                      !.min_bedroom = Some(b)] :
        a \in {100000, 200000}, l \in {NoLimit, 1}, m \in {0, 500}, b \in {1, 2}}

InitTighten == InitWith(Tables(TightenListings), {Polygon}, {Stations})

NextTighten == \E c \in TightenCriteria : GetListingsFromDb(c)

SpecTighten == InitTighten /\ [][NextTighten]_vars

\* c2 is c1 with one numeric threshold tightened.
Tightens(c1, c2) ==
    \/ c2.min_price > c1.min_price /\ c2 = [c1 EXCEPT !.min_price = c2.min_price]
    \/ /\ Known(c1.min_bedroom) /\ Known(c2.min_bedroom)
       /\ Val(c2.min_bedroom) > Val(c1.min_bedroom)
       /\ c2 = [c1 EXCEPT !.min_bedroom = c2.min_bedroom]
    \/ /\ Known(c1.max_price_per_sqft) /\ Known(c2.max_price_per_sqft)
       /\ Val(c2.max_price_per_sqft) < Val(c1.max_price_per_sqft)
       /\ c2 = [c1 EXCEPT !.max_price_per_sqft = c2.max_price_per_sqft]

\* C6: a call whose criteria tighten one threshold of the call before it, on
\* the same day, does not return more listings.
TighteningNeverReturnsMore ==
    (prev.outcome = "returned" /\ outcome = "returned" /\ prev.calledOn = calledOn
     /\ Tightens(prev.criteria, criteria))
        => Len(listings) <= Len(prev.listings)

----------------------------------------------------------------------------
(* Repeated calls, while the calendar day may change.                      *)

RepeatListings ==
    {Listing,
     [Listing EXCEPT !.ComputedLastUpdated = Some(FirstDay - DefaultLastUpdatedDaysAgo)],
     [Listing EXCEPT !.OpenHouseStart = Some(FirstDay)]}

RepeatCriteria ==
    {[Defaults EXCEPT !.last_updated_days_ago = u, !.has_upcoming_openhouse = o] :
        u \in {None, Some(DefaultLastUpdatedDaysAgo)}, o \in BOOLEAN}

InitRepeat == InitWith(Tables(RepeatListings), {<<>>, Polygon}, {Stations})

NextRepeat == (\E c \in RepeatCriteria : GetListingsFromDb(c)) \/ Tick

SpecRepeat == InitRepeat /\ [][NextRepeat]_vars

SameResult == outcome = prev.outcome /\ listings = prev.listings

Repeated == outcome # "none" /\ prev.outcome # "none" /\ criteria = prev.criteria

\* Neither the update-recency condition nor the open-house join is enabled.
DateIndependent(c) == ~Truthy(c.last_updated_days_ago) /\ ~c.has_upcoming_openhouse

\* C7, as stated: two consecutive calls with identical criteria end the same
\* way and return the same listings in the same order.
RepeatedCallReturnsSame == Repeated => SameResult

\* C7, amended: two consecutive calls with identical criteria return the
\* same listings in the same order when both are made on the same day, or
\* when neither last_updated_days_ago nor has_upcoming_openhouse is enabled.
RepeatedCallSameDayReturnsSame ==
    (Repeated /\ (calledOn = prev.calledOn \/ DateIndependent(criteria))) => SameResult

\* The same call was made twice on one day and returned the same non-empty
\* list although it selects by date.
RepeatedCallWitness ==
    /\ Repeated /\ outcome = "returned" /\ calledOn = prev.calledOn
    /\ ~DateIndependent(criteria)
    /\ listings # <<>> /\ listings = prev.listings

----------------------------------------------------------------------------
(* Size conversion: texts made of a number, a separator and a unit.        *)

NumberTexts ==
    {[text |-> <<"1", "0", "0", "0">>, tenths |-> 10000],
     [text |-> <<"1", "0", "0">>, tenths |-> 1000],
     [text |-> <<"9", "2", ".", "9">>, tenths |-> 929],
     [text |-> <<"0">>, tenths |-> 0]}

OtherFirstFields == {<<"a", "b", "c">>, <<>>}

UnitTexts == {Sqft, M2, <<"x", "y", "z">>, <<"S", "Q", "F", "T">>, <<"f", "t", "2">>}

SizeTexts ==
    {n \o sep \o u : n \in {t.text : t \in NumberTexts} \cup OtherFirstFields,
                     sep \in {<<" ">>, <<" ", " ">>, <<>>},
                     u \in UnitTexts \cup {<<>>}}

InitSize == InitWith({<<>>}, {<<>>}, {<<>>})

NextSize == \E txt \in SizeTexts : ConvertInteriorSizeToSqft(txt)

SpecSize == InitSize /\ [][NextSize]_vars

\* C11: on a number, one space and a unit, the conversion raises unless the
\* unit is sqft or m2; for sqft it returns the number and for m2 the number
\* times 10.764.
UnknownUnitIsAParseFailure ==
    \A n \in NumberTexts : \A u \in UnitTexts :
        (conversion.outcome # "none" /\ conversion.input = n.text \o <<" ">> \o u) =>
            /\ u \notin {Sqft, M2} => conversion.outcome = "raised"
            /\ u = Sqft => (conversion.outcome = "returned"
                            /\ conversion.value = 1000 * n.tenths)
            /\ u = M2 => (conversion.outcome = "returned"
                          /\ conversion.value = 10764 * n.tenths)

----------------------------------------------------------------------------
(* Price bounds in every order: min_price below, equal to and above        *)
(* max_price.                                                              *)

ConfigListings == {WithPrice(Some(150000)), WithPrice(Some(200000)), WithPrice(Some(250000))}

ConfigCriteria ==
    {[Defaults EXCEPT !.min_price = a, !.max_price = b, !.within_area_of_interest = w] :
        a \in {100000, 200000, 300000}, b \in {200000, 300000}, w \in BOOLEAN}

InitConfig == InitWith(Tables(ConfigListings), {Square}, {<<>>})

NextConfig == \E c \in ConfigCriteria : GetListingsFromDb(c)

SpecConfig == InitConfig /\ [][NextConfig]_vars

\* C12: a call with min_price >= max_price ends in an error and executes no
\* query.
InvalidBoundsAreRejected ==
    (outcome # "none" /\ criteria.min_price >= criteria.max_price) =>
        (outcome = "raised" /\ ~executed)

----------------------------------------------------------------------------
(* Malformed records: listings without coordinates or without an address   *)
(* text among well-formed ones, under each of the three stages.            *)

NoAddress == [At(1, 3) EXCEPT !.Property_Address_AddressText = None]

MalformedListings == {At(1, 1), NoCoordinates, NoAddress}

MalformedCriteria ==
    {[Defaults EXCEPT !.within_area_of_interest = w, !.min_metro_distance_meters = d,
                      !.no_high_rise = h] :
        w \in BOOLEAN, d \in {None, Some(3)}, h \in BOOLEAN}

InitMalformed == InitWith(Tables(MalformedListings), {Polygon}, {Stations})

NextMalformed == \E c \in MalformedCriteria : GetListingsFromDb(c)

SpecMalformed == InitMalformed /\ [][NextMalformed]_vars

WellFormed(r) == HasPoint(r) /\ ~IsNone(r.Property_Address_AddressText)

\* C13: every call returns, and returns each well-formed listing of the
\* store that matches all the enabled filters, whatever else the store
\* holds.
MalformedRecordsAreSkipped ==
    outcome # "none" =>
        /\ outcome = "returned"
        /\ \A i \in 1..Len(store) :
               (WellFormed(store[i]) /\ MatchesAll(store[i], criteria, calledOn))
                   => Returned(store[i])

----------------------------------------------------------------------------
(* Annotations at export: notes files of up to MaxLines lines about the    *)
(* listings of the store, with and without an answer and a note.           *)

NoteAnswers ==
    {<<>>, <<"No">>, <<" Yes">>, <<"No", " sold ">>, <<" Yes", " sold ">>, <<"FALSE", " ">>}

NoteLines == {NoteLine(m, a) : m \in 1..MaxRows, a \in NoteAnswers}

NoteFiles == SeqsUpTo(NoteLines, MaxLines)

NotesListings == {Listing, WithPrice(Some(50000))}

NotesCriteria == {Defaults, [Defaults EXCEPT !.limit = 1]}

InitNotes == InitWithNotes(Tables(NotesListings), {<<>>}, {<<>>}, NoteFiles)

NextNotes == (\E c \in NotesCriteria : GetListingsFromDb(c)) \/ ExportDataToCsv

SpecNotes == InitNotes /\ [][NextNotes]_vars

HasMls(seq, m) == \E j \in 1..Len(seq) : seq[j].MlsNumber = m

KeepIsFalse(m) == m \in DOMAIN mls_notes /\ mls_notes[m].keep = FALSE

\* C15: an unlimited call returns every listing of the store that matches
\* its filters, annotated or not, and the file written by an export holds a
\* listing it was given exactly when the listing's annotation does not say
\* keep = false.
KeepFalseIsHonouredAtExport ==
    /\ (outcome = "returned" /\ criteria.limit = NoLimit) =>
           \A i \in 1..Len(store) :
               MatchesAll(store[i], criteria, calledOn)
                   <=> HasMls(listings, store[i].MlsNumber)
    /\ csv_file.written =>
           \A j \in 1..Len(csv_file.listings) :
               HasMls(csv_file.rows, csv_file.listings[j].MlsNumber)
                   <=> ~KeepIsFalse(csv_file.listings[j].MlsNumber)


=============================================================================
